---- MODULE Spec2Model ----
(***************************************************************************)
(* State-machine model of the iaconnector library: the IAConnector         *)
(* coordinator (iaconnector/__init__.py), the OAuthConsumer                *)
(* (iaconnector/oauth.py), the APIConsumer (iaconnector/api.py) and the    *)
(* APIError taxonomy (iaconnector/exceptions.py).                          *)
(*                                                                         *)
(* Python values are tagged records: the field cls is the Python type and  *)
(* v the payload, so that `x is None`, isinstance(x, C) and `k in x` are   *)
(* modelled by what they do on each type.  Every public method is one      *)
(* action; an exception that leaves a method is recorded in last.outcome   *)
(* (the exception class) and last.value (its message), a normal return as  *)
(* outcome "return" with the returned value.                               *)
(***************************************************************************)
EXTENDS Integers, Sequences, FiniteSets, TLC

(***************************************************************************)
(* Bounds of the model.                                                    *)
(***************************************************************************)
\* the clock (datetime.utcnow()) runs over 0 .. MaxTime
MaxTime == 1
\* number of distinct non-empty access tokens, and of renew tokens
MaxTokens == 1
\* expires_in values reported by the server are 1 .. MaxExpiresIn
MaxExpiresIn == 1
\* a base URL argument has at most MaxUrlLen characters
MaxUrlLen == 2

(***************************************************************************)
(* Python values.                                                          *)
(***************************************************************************)
None == [cls |-> "NoneType"]
Str(s) == [cls |-> "str", v |-> s]
Num(n) == [cls |-> "int", v |-> n]
List(q) == [cls |-> "list", v |-> q]
Dict(f) == [cls |-> "dict", v |-> f]
Datetime(n) == [cls |-> "datetime", v |-> n]
\* a reference to an object, as passed in `source=self`
Ref(o) == [cls |-> o.cls, id |-> o.id]

\* a string spelled out character by character, for the code that slices it
Text(chars) == [cls |-> "str", chars |-> chars]

\* the empty dictionary
EmptyMap == [k \in {} |-> None]

\* opaque token strings: the access tokens AT1, AT2, ... and the renew tokens
\* RT1, RT2, ...; the empty string is a string, not None
AccessTokens == {Str("AT" \o ToString(i)) : i \in 1 .. MaxTokens}
RenewTokens == {Str("RT" \o ToString(i)) : i \in 1 .. MaxTokens}
\* an optional access_token / renew_token argument
OptAccess == {None, Str("")} \cup AccessTokens
OptRenew == {None} \cup RenewTokens

\* the two interpreter families the package installs on: they differ in
\* object.__format__ with a non-empty format spec (str.format with "{:s}")
Interpreters == {"py2", "py3"}

\* oauth and api are the coordinator's _oauth and _api; standalone is an
\* OAuthConsumer constructed directly, with no connector
VARIABLES oauth, api, standalone, now, objects, interpreter, last

vars == <<oauth, api, standalone, now, objects, interpreter, last>>

\* what the last operation was, its arguments and how it ended
\* effects lists the calls it made on its collaborators, in order: the OAuth2
\* session's fetch_token / refresh_token and the connector's propagate_tokens
Done(op, args, outcome, value) ==
    [op |-> op, args |-> args, outcome |-> outcome, value |-> value, effects |-> <<>>]

(***************************************************************************)
(* OAuthConsumer.__init__ and APIConsumer.__init__ (token fields).         *)
(***************************************************************************)
\* the class attributes base_url
OAuthBaseUrl ==
    Text(<<"h","t","t","p","s",":","/","/","w","w","w",".","i","n","t","e","r","-",
           "a","c","t","i","e","f",".","u","t","w","e","n","t","e",".","n","l","/","o","/">>)
APIBaseUrl ==
    Text(<<"h","t","t","p","s",":","/","/","a","p","i",".","i","a",".","u","t","w","e",
           "n","t","e",".","n","l","/","a","p","p","/","l","e","n","n","a","r","t","/">>)

\* s[-1:]: the last character as a string, empty for the empty string
last_slice(chars) ==
    IF Len(chars) = 0 THEN <<>> ELSE SubSeq(chars, Len(chars), Len(chars))

\* the normalization with the test inverted: a slash is added to a URL that has one
base_url_of_inverted(base_url, default) ==
    IF base_url # None
    THEN IF last_slice(base_url.chars) = <<"/">>
         THEN Text(base_url.chars \o <<"/">>)
         ELSE base_url
    ELSE default

\* the base_url an instance reads after __init__: the normalized argument, or
\* the class attribute when the argument is None
base_url_of(base_url, default) ==
    IF base_url # None
    THEN IF last_slice(base_url.chars) # <<"/">>
         THEN Text(base_url.chars \o <<"/">>)
         ELSE base_url
    ELSE default

OAuthConsumer(id, access_token, renew_token, base_url, connector) ==
    [cls |-> "OAuthConsumer", id |-> id,
     access_token |-> access_token, renew_token |-> renew_token,
     token_expiry |-> None, connector |-> connector,
     base_url |-> base_url_of(base_url, OAuthBaseUrl), session |-> None]

APIConsumer(id, access_token, base_url, connector, preview_mode) ==
    [cls |-> "APIConsumer", id |-> id, access_token |-> access_token,
     connector |-> connector, base_url |-> base_url_of(base_url, APIBaseUrl),
     preview_mode |-> preview_mode]

\* the coordinator itself, as passed in `connector=self`
Connector == [cls |-> "IAConnector"]

\* objects[c] counts the instances of class c constructed so far; the n-th
\* instance of a class has id n, which is its identity
Classes == {"OAuthConsumer", "APIConsumer", "OAuth2Session"}
new_id(n, c) == n[c] + 1
count(n, c) == [n EXCEPT ![c] = @ + 1]

\* IAConnector.__init__
Init ==
    /\ oauth = None
    /\ api = None
    /\ now = 0
    /\ standalone = None
    /\ objects = [c \in Classes |-> 0]
    /\ interpreter \in Interpreters
    /\ last = Done("__init__", None, "return", None)

(***************************************************************************)
(* IAConnector.init_oauth / init_api: `assert self._x is None`, then the   *)
(* consumer is constructed with connector=self (here with base_url left at *)
(* its default, None).                                                     *)
(***************************************************************************)
init_oauth_unchecked(access_token, renew_token) ==
    /\ objects["OAuthConsumer"] < 2
    /\ oauth' = OAuthConsumer(new_id(objects, "OAuthConsumer"), access_token, renew_token,
                              None, Connector)
    /\ objects' = count(objects, "OAuthConsumer")
    /\ last' = Done("init_oauth",
                    [access_token |-> access_token, renew_token |-> renew_token],
                    "return", None)
    /\ UNCHANGED <<api, now, interpreter, standalone>>

init_oauth(access_token, renew_token) ==
    IF oauth # None
    THEN /\ last' = Done("init_oauth",
                         [access_token |-> access_token, renew_token |-> renew_token],
                         "AssertionError", None)
         /\ UNCHANGED <<oauth, api, now, objects, interpreter, standalone>>
    ELSE /\ oauth' = OAuthConsumer(new_id(objects, "OAuthConsumer"), access_token,
                                   renew_token, None, Connector)
         /\ objects' = count(objects, "OAuthConsumer")
         /\ last' = Done("init_oauth",
                         [access_token |-> access_token, renew_token |-> renew_token],
                         "return", None)
         /\ UNCHANGED <<api, now, interpreter, standalone>>

\* init_api handing the OAuth consumer's access token to the new API consumer
init_api_relay ==
    IF api # None
    THEN /\ last' = Done("init_api", None, "AssertionError", None)
         /\ UNCHANGED <<oauth, api, now, objects, interpreter, standalone>>
    ELSE /\ api' = APIConsumer(new_id(objects, "APIConsumer"),
                               IF oauth # None THEN oauth.access_token ELSE None,
                               None, Connector, FALSE)
         /\ objects' = count(objects, "APIConsumer")
         /\ last' = Done("init_api", None, "return", None)
         /\ UNCHANGED <<oauth, now, interpreter, standalone>>

\* init_api without the assertion: a second call binds a new consumer
init_api_unchecked ==
    /\ objects["APIConsumer"] < 2
    /\ api' = APIConsumer(new_id(objects, "APIConsumer"), None, None, Connector, FALSE)
    /\ objects' = count(objects, "APIConsumer")
    /\ last' = Done("init_api", None, "return", None)
    /\ UNCHANGED <<oauth, now, interpreter, standalone>>

init_api ==
    IF api # None
    THEN /\ last' = Done("init_api", None, "AssertionError", None)
         /\ UNCHANGED <<oauth, api, now, objects, interpreter, standalone>>
    ELSE /\ api' = APIConsumer(new_id(objects, "APIConsumer"), None, None, Connector, FALSE)
         /\ objects' = count(objects, "APIConsumer")
         /\ last' = Done("init_api", None, "return", None)
         /\ UNCHANGED <<oauth, now, interpreter, standalone>>

(***************************************************************************)
(* IAConnector.propagate_tokens.                                           *)
(***************************************************************************)
\* isinstance(source, C)
isinstance(x, c) == x.cls = c

\* the API half, with the echo test made against the wrong class
propagate_api_wrong_class(a, access_token, source) ==
    IF ~isinstance(source, "OAuthConsumer") /\ a # None
    THEN IF access_token # None THEN [a EXCEPT !.access_token = access_token] ELSE a
    ELSE a

\* the API half skipping only the coordinator's own API consumer
propagate_api_identity(a, access_token, source) ==
    IF a # None /\ source # [cls |-> a.cls, id |-> a.id]
    THEN IF access_token # None THEN [a EXCEPT !.access_token = access_token] ELSE a
    ELSE a

\* the API half: lines 81-84
propagate_api(a, access_token, source) ==
    IF ~isinstance(source, "APIConsumer") /\ a # None
    THEN IF access_token # None THEN [a EXCEPT !.access_token = access_token] ELSE a
    ELSE a

\* the OAuth half without the echo test on the source
propagate_oauth_echo(o, access_token, renew_token, source) ==
    IF o # None
    THEN LET o1 == IF access_token # None
                   THEN [o EXCEPT !.access_token = access_token] ELSE o
         IN IF renew_token # None
            THEN [o1 EXCEPT !.renew_token = renew_token] ELSE o1
    ELSE o

\* the OAuth half assigning whatever it is given, None included
propagate_oauth_unguarded(o, access_token, renew_token, source) ==
    IF ~isinstance(source, "OAuthConsumer") /\ o # None
    THEN [o EXCEPT !.access_token = access_token, !.renew_token = renew_token]
    ELSE o

\* the OAuth half with the renew token handled inside the access token branch
propagate_oauth_nested(o, access_token, renew_token, source) ==
    IF ~isinstance(source, "OAuthConsumer") /\ o # None
    THEN IF access_token # None
         THEN LET o1 == [o EXCEPT !.access_token = access_token]
              IN IF renew_token # None
                 THEN [o1 EXCEPT !.renew_token = renew_token] ELSE o1
         ELSE o
    ELSE o

\* the OAuth half: lines 87-93
propagate_oauth(o, access_token, renew_token, source) ==
    IF ~isinstance(source, "OAuthConsumer") /\ o # None
    THEN LET o1 == IF access_token # None
                   THEN [o EXCEPT !.access_token = access_token] ELSE o
         IN IF renew_token # None
            THEN [o1 EXCEPT !.renew_token = renew_token] ELSE o1
    ELSE o

\* the objects a caller can name as `source`: nothing, the coordinator's own
\* consumers, or consumers that are not bound to this coordinator
Foreign(c) == [cls |-> c, id |-> 0]
Sources ==
    {None}
    \cup {Ref(c) : c \in {oauth, api} \ {None}}
    \cup {Foreign("OAuthConsumer"), Foreign("APIConsumer")}

propagate_tokens(access_token, renew_token, source) ==
    /\ api' = propagate_api(api, access_token, source)
    /\ oauth' = propagate_oauth(oauth, access_token, renew_token, source)
    /\ last' = Done("propagate_tokens",
                    [access_token |-> access_token, renew_token |-> renew_token,
                     source |-> source],
                    "return", None)
    /\ UNCHANGED <<now, objects, interpreter, standalone>>

(***************************************************************************)
(* str.format with the "{:s}" spec, as used by the logger.debug lines: the *)
(* argument is formatted before the logger decides whether to emit it.     *)
(* str accepts the spec; int rejects the code 's'; None, dict and list     *)
(* inherit object.__format__, which rejects a non-empty spec on py3 and    *)
(* formats str(x) on py2.                                                  *)
(***************************************************************************)
format_s(x, interp) ==
    CASE x.cls = "str" -> "ok"
      [] x.cls = "int" -> "ValueError"
      [] OTHER -> IF interp = "py3" THEN "TypeError" ELSE "ok"

(***************************************************************************)
(* OAuthConsumer._get_session: the OAuth2Session is created on first use.  *)
(***************************************************************************)
\* _get_session without the memo: a session is constructed on every access
get_session_fresh(o, id) ==
    [o EXCEPT !.session = [cls |-> "OAuth2Session", id |-> id]]

get_session(o, id) ==
    IF o.session = None
    THEN [o EXCEPT !.session = [cls |-> "OAuth2Session", id |-> id]]
    ELSE o

\* the objects counter after _get_session took o to o1
count_session(o, o1, n) ==
    IF o1.session = o.session THEN n ELSE count(n, "OAuth2Session")

(***************************************************************************)
(* OAuthConsumer._propagate_tokens: relays both tokens to the connector    *)
(* with source=self.  Yields the two consumers after the relay.            *)
(***************************************************************************)
\* _propagate_tokens that never reaches the connector
propagate_from_oauth_silent(o, a) == [oauth |-> o, api |-> a, effects |-> <<>>]

\* _propagate_tokens without the test on self.connector
propagate_from_oauth_unbound(o, a) ==
    [oauth |-> o,
     api |-> propagate_api(a, o.access_token, Ref(o)),
     effects |-> <<"propagate_tokens">>]

propagate_from_oauth(o, a) ==
    IF isinstance(o.connector, "IAConnector")
    THEN [oauth |-> propagate_oauth(o, o.access_token, o.renew_token, Ref(o)),
          api |-> propagate_api(a, o.access_token, Ref(o)),
          effects |-> <<"propagate_tokens">>]
    ELSE [oauth |-> o, api |-> a, effects |-> <<>>]

(***************************************************************************)
(* What the OAuth2 session hands back from fetch_token / refresh_token:    *)
(* either it raises (transport failure, error response, no access_token in *)
(* the response) or it returns the token dictionary.  The dictionary       *)
(* always has a non-empty access_token; refresh_token and expires_in are   *)
(* optional members of a token response, and refresh_token() fills in the  *)
(* refresh token it was called with when the response has none.            *)
(***************************************************************************)
ExpiresIn == {Num(n) : n \in 1 .. MaxExpiresIn}

TokenResponse(keys, at, rt, ttl) ==
    Dict([k \in keys |-> CASE k = "access_token" -> at
                           [] k = "refresh_token" -> rt
                           [] k = "expires_in" -> ttl])

FetchExchanges ==
    {[raises |-> TRUE]}
    \cup {[raises |-> FALSE, response |-> TokenResponse({"access_token"} \cup opt, at, rt, ttl)] :
            opt \in SUBSET {"refresh_token", "expires_in"},
            at \in AccessTokens, rt \in RenewTokens, ttl \in ExpiresIn}

RenewExchanges ==
    {[raises |-> TRUE]}
    \cup {[raises |-> FALSE,
           response |-> TokenResponse({"access_token", "refresh_token"} \cup opt, at, rt, ttl)] :
            opt \in SUBSET {"expires_in"},
            at \in AccessTokens, rt \in RenewTokens, ttl \in ExpiresIn}

\* response[key]: the value, or KeyError
has_key(d, key) == key \in DOMAIN d.v

\* how a method body ended: the consumers it leaves behind and the outcome
Ended(o, a, effects, outcome, value) ==
    [oauth |-> o, api |-> a, effects |-> effects, outcome |-> outcome, value |-> value]

\* token_expiry with the time of the fetch left out
expiry_ttl_only(t, expires_in) == Datetime(expires_in.v)

\* datetime.utcnow() + timedelta(seconds=response['expires_in'])
expiry(t, expires_in) == Datetime(t + expires_in.v)

(***************************************************************************)
(* OAuthConsumer.fetch_access_token, statement by statement.  The debug    *)
(* line formats authorization_response, a str, which "{url:s}" accepts.    *)
(***************************************************************************)
fetch_body(o, a, exchange, id, t) ==
    LET o1 == get_session(o, id) IN
    IF exchange.raises THEN Ended(o1, a, <<"fetch_token">>, "OAuth2Error", None)
    ELSE
    LET r == exchange.response IN
    IF ~has_key(r, "access_token")
    THEN Ended(o1, a, <<"fetch_token">>, "KeyError", Str("'access_token'"))
    ELSE
    LET o2 == [o1 EXCEPT !.access_token = r.v["access_token"]] IN
    IF ~has_key(r, "refresh_token")
    THEN Ended(o2, a, <<"fetch_token">>, "KeyError", Str("'refresh_token'"))
    ELSE
    LET o3 == [o2 EXCEPT !.renew_token = r.v["refresh_token"]] IN
    IF ~has_key(r, "expires_in")
    THEN Ended(o3, a, <<"fetch_token">>, "KeyError", Str("'expires_in'"))
    ELSE
    LET o4 == [o3 EXCEPT !.token_expiry = expiry(t, r.v["expires_in"])]
        p == propagate_from_oauth(o4, a)
    IN Ended(p.oauth, p.api, <<"fetch_token">> \o p.effects, "return", None)

fetch_access_token(exchange) ==
    /\ oauth # None
    /\ LET e == fetch_body(oauth, api, exchange, new_id(objects, "OAuth2Session"), now) IN
       /\ oauth' = e.oauth
       /\ api' = e.api
       /\ objects' = count_session(oauth, e.oauth, objects)
       /\ last' = [Done("fetch_access_token", exchange, e.outcome, e.value)
                    EXCEPT !.effects = e.effects]
    /\ UNCHANGED <<now, interpreter, standalone>>

(***************************************************************************)
(* OAuthConsumer.renew_access_token, statement by statement.  The debug    *)
(* line formats the old access token with "{token:s}" first.  A refresh    *)
(* request made without a refresh token is rejected by the server.         *)
(***************************************************************************)
\* renew_access_token that also clears the expiry of the replaced token
renew_body_clears_expiry(o, a, exchange, id, interp) ==
    IF format_s(o.access_token, interp) # "ok"
    THEN Ended(o, a, <<>>, format_s(o.access_token, interp), None)
    ELSE
    LET o1 == get_session(o, id) IN
    IF exchange.raises THEN Ended(o1, a, <<"refresh_token">>, "OAuth2Error", None)
    ELSE
    LET r == exchange.response IN
    IF ~has_key(r, "access_token")
    THEN Ended(o1, a, <<"refresh_token">>, "KeyError", Str("'access_token'"))
    ELSE
    LET o2 == [o1 EXCEPT !.access_token = r.v["access_token"]] IN
    IF ~has_key(r, "refresh_token")
    THEN Ended(o2, a, <<"refresh_token">>, "KeyError", Str("'refresh_token'"))
    ELSE
    LET o3 == [o2 EXCEPT !.renew_token = r.v["refresh_token"], !.token_expiry = None]
        p == propagate_from_oauth(o3, a)
    IN Ended(p.oauth, p.api, <<"refresh_token">> \o p.effects, "return", None)

renew_body(o, a, exchange, id, interp) ==
    IF format_s(o.access_token, interp) # "ok"
    THEN Ended(o, a, <<>>, format_s(o.access_token, interp), None)
    ELSE
    LET o1 == get_session(o, id) IN
    IF exchange.raises THEN Ended(o1, a, <<"refresh_token">>, "OAuth2Error", None)
    ELSE
    LET r == exchange.response IN
    IF ~has_key(r, "access_token")
    THEN Ended(o1, a, <<"refresh_token">>, "KeyError", Str("'access_token'"))
    ELSE
    LET o2 == [o1 EXCEPT !.access_token = r.v["access_token"]] IN
    IF ~has_key(r, "refresh_token")
    THEN Ended(o2, a, <<"refresh_token">>, "KeyError", Str("'refresh_token'"))
    ELSE
    LET o3 == [o2 EXCEPT !.renew_token = r.v["refresh_token"]]
        p == propagate_from_oauth(o3, a)
    IN Ended(p.oauth, p.api, <<"refresh_token">> \o p.effects, "return", None)

renew_access_token(exchange) ==
    /\ oauth # None
    /\ oauth.renew_token = None => exchange.raises
    /\ LET e == renew_body(oauth, api, exchange, new_id(objects, "OAuth2Session"), interpreter) IN
       /\ oauth' = e.oauth
       /\ api' = e.api
       /\ objects' = count_session(oauth, e.oauth, objects)
       /\ last' = [Done("renew_access_token", exchange, e.outcome, e.value)
                    EXCEPT !.effects = e.effects]
    /\ UNCHANGED <<now, interpreter, standalone>>

(***************************************************************************)
(* OAuthConsumer.get_access_token / get_renew_token / get_token_expiry.    *)
(***************************************************************************)
NoAccessToken ==
    Str("There is no access token present. Request a token using fetch_access_token.")
NoRenewToken ==
    Str("There is no renew token present. Request a token using fetch_renew_token.")

\* the getter testing the token for truth instead of for None
get_token_falsy(token, message) ==
    IF token \in {None, Str("")}
    THEN [outcome |-> "ValueError", value |-> message]
    ELSE [outcome |-> "return", value |-> token]

get_token(token, message) ==
    IF token = None
    THEN [outcome |-> "ValueError", value |-> message]
    ELSE [outcome |-> "return", value |-> token]

get_access_token ==
    /\ oauth # None
    /\ LET e == get_token(oauth.access_token, NoAccessToken) IN
       last' = Done("get_access_token", None, e.outcome, e.value)
    /\ UNCHANGED <<oauth, api, now, objects, interpreter, standalone>>

get_renew_token ==
    /\ oauth # None
    /\ LET e == get_token(oauth.renew_token, NoRenewToken) IN
       last' = Done("get_renew_token", None, e.outcome, e.value)
    /\ UNCHANGED <<oauth, api, now, objects, interpreter, standalone>>

get_token_expiry ==
    /\ oauth # None
    /\ last' = Done("get_token_expiry", None, "return", oauth.token_expiry)
    /\ UNCHANGED <<oauth, api, now, objects, interpreter, standalone>>

\* get_authorization_url: needs the session, returns the URL of the endpoint
get_authorization_url ==
    /\ oauth # None
    /\ oauth' = get_session(oauth, new_id(objects, "OAuth2Session"))
    /\ objects' = count_session(oauth, oauth', objects)
    /\ last' = Done("get_authorization_url", None, "return", Str("authorize/"))
    /\ UNCHANGED <<api, now, interpreter, standalone>>

(***************************************************************************)
(* Consumers constructed directly, outside a coordinator (as tests.py      *)
(* does): connector is None.  Such an instance is a consumer that is not   *)
(* bound to the coordinator, Foreign(cls).                                 *)
(***************************************************************************)
\* the characters of the base URL arguments, and the arguments
BaseUrlChars == {"a", "/"}
BaseUrls ==
    {None} \cup {Text(q) : q \in UNION {[1..n -> BaseUrlChars] : n \in 0..MaxUrlLen}}

\* OAuthConsumer(..., access_token, renew_token, base_url): one instance is followed
new_oauth_consumer(access_token, renew_token, base_url) ==
    /\ standalone = None
    /\ standalone' = OAuthConsumer(0, access_token, renew_token, base_url, None)
    /\ last' = Done("OAuthConsumer",
                    [access_token |-> access_token, renew_token |-> renew_token,
                     base_url |-> base_url],
                    "return", standalone')
    /\ UNCHANGED <<oauth, api, now, objects, interpreter>>

\* APIConsumer(base_url=base_url): the new instance is the value
new_api_consumer(base_url) ==
    /\ last' = Done("APIConsumer", [base_url |-> base_url], "return",
                    APIConsumer(0, None, base_url, None, FALSE))
    /\ UNCHANGED <<oauth, api, now, objects, interpreter, standalone>>

\* fetch_access_token on the instance that has no connector
standalone_fetch_access_token(exchange) ==
    /\ standalone # None
    /\ LET e == fetch_body(standalone, api, exchange,
                           new_id(objects, "OAuth2Session"), now) IN
       /\ standalone' = e.oauth
       /\ api' = e.api
       /\ objects' = count_session(standalone, e.oauth, objects)
       /\ last' = [Done("standalone.fetch_access_token", exchange, e.outcome, e.value)
                    EXCEPT !.effects = e.effects]
    /\ UNCHANGED <<oauth, now, interpreter>>

\* renew_access_token on the instance that has no connector
standalone_renew_access_token(exchange) ==
    /\ standalone # None
    /\ standalone.renew_token = None => exchange.raises
    /\ LET e == renew_body(standalone, api, exchange,
                           new_id(objects, "OAuth2Session"), interpreter) IN
       /\ standalone' = e.oauth
       /\ api' = e.api
       /\ objects' = count_session(standalone, e.oauth, objects)
       /\ last' = [Done("standalone.renew_access_token", exchange, e.outcome, e.value)
                    EXCEPT !.effects = e.effects]
    /\ UNCHANGED <<oauth, now, interpreter>>

(***************************************************************************)
(* The APIError taxonomy (exceptions.py) and APIConsumer._get_exception.   *)
(***************************************************************************)
\* APIError.__subclasses__(), in definition order, with the class attribute
Subclasses ==
    << [name |-> "NotLoggedInError", error_code |-> Num(403)],
       [name |-> "UnknownDeviceError", error_code |-> Num(406)],
       [name |-> "SignupError", error_code |-> Num(412)],
       [name |-> "OtherError", error_code |-> Num(500)] >>

\* a class object
Class(name) == [cls |-> "type", v |-> name]

\* errors[cls.error_code] = cls, for the first i subclasses
RECURSIVE build_errors(_, _)
build_errors(classes, i) ==
    IF i = 0 THEN EmptyMap
    ELSE LET errors == build_errors(classes, i - 1)
             c == classes[i]
         IN IF "error_code" \in DOMAIN c /\ c.error_code # None
            THEN [k \in DOMAIN errors \cup {c.error_code} |->
                     IF k = c.error_code THEN c.name ELSE errors[k]]
            ELSE errors

\* the lookup falling back to the last registered class
get_exception_fallback(error_code) ==
    LET errors == build_errors(Subclasses, Len(Subclasses))
    IN IF error_code \in DOMAIN errors THEN errors[error_code]
       ELSE Subclasses[Len(Subclasses)].name

\* errors.get(error_code, APIError)
get_exception(error_code) ==
    LET errors == build_errors(Subclasses, Len(Subclasses))
    IN IF error_code \in DOMAIN errors THEN errors[error_code] ELSE "APIError"

\* the error codes the claims speak of: registered, unregistered, negative, None
ErrorCodes == {None, Num(403), Num(406), Num(412), Num(500), Num(666), Num(-32700)}

call_get_exception(error_code) ==
    /\ last' = Done("_get_exception", error_code, "return", Class(get_exception(error_code)))
    /\ UNCHANGED <<oauth, api, now, objects, interpreter, standalone>>

(***************************************************************************)
(* Python operators used by APIConsumer._call on the decoded JSON body.    *)
(***************************************************************************)
\* `needle in s` for two strings: s = prefix + needle + suffix
Affixes == {"", "code ", " message"}
is_substring(needle, s) == \E p \in Affixes, q \in Affixes : p \o needle \o q = s

\* `key in x`: dict membership, list element, substring; TypeError otherwise
contains(key, x) ==
    CASE x.cls = "dict" -> IF key \in DOMAIN x.v THEN "True" ELSE "False"
      [] x.cls = "list" -> IF \E i \in DOMAIN x.v : x.v[i] = Str(key) THEN "True" ELSE "False"
      [] x.cls = "str" -> IF is_substring(key, x.v) THEN "True" ELSE "False"
      [] OTHER -> "TypeError"

\* str(x), as applied to the message by APIError.__init__
pystr(x) ==
    CASE x.cls = "str" -> x.v
      [] x.cls = "int" -> ToString(x.v)
      [] x.cls = "NoneType" -> "None"

\* an exception leaving _call, or its return value
Raised(class, message) == [outcome |-> class, value |-> message]
Returned(value) == [outcome |-> "return", value |-> value]

\* APIError.__init__ (inherited by the subclasses): self.message = str(message)
NewAPIError(class, message) == Raised(class, Str(pystr(message)))

\* lines 105-110: the branch taken for a non-None `error` member
raise_error(error) ==
    LET has_code == contains("code", error) IN
    IF has_code = "TypeError" THEN Raised("TypeError", None)
    ELSE IF has_code = "True" /\ contains("message", error) = "True"
    THEN IF error.cls # "dict" THEN Raised("TypeError", None)
         ELSE IF error.v["code"].cls \in {"dict", "list"} THEN Raised("TypeError", None)
         ELSE NewAPIError(get_exception(error.v["code"]), error.v["message"])
    ELSE IF error.cls # "dict" THEN Raised("AttributeError", None)
         ELSE NewAPIError("APIError",
                          IF "message" \in DOMAIN error.v THEN error.v["message"] ELSE None)

\* str(e) of the TypeError raised by x['result'] on a list or a string
not_subscriptable(x, interp) ==
    IF x.cls = "list"
    THEN IF interp = "py3" THEN "list indices must be integers or slices, not str"
         ELSE "list indices must be integers, not str"
    ELSE IF interp = "py3" THEN "string indices must be integers"
         ELSE "string indices must be integers, not str"

\* lines 100-117: from response.json() to the return
call_body(response, interp) ==
    IF response.cls = "ConnectionError" THEN Raised("ConnectionError", None)
    ELSE IF response.cls = "text" THEN Raised("ValueError", None)
    ELSE IF format_s(response, interp) # "ok" THEN Raised(format_s(response, interp), None)
    ELSE
    LET has_error == contains("error", response) IN
    IF has_error = "TypeError" THEN Raised("TypeError", None)
    ELSE IF has_error = "True" /\ response.cls # "dict" THEN Raised("TypeError", None)
    ELSE IF has_error = "True" /\ response.v["error"] # None THEN raise_error(response.v["error"])
    ELSE IF response.cls = "dict"
    THEN IF "result" \in DOMAIN response.v
         THEN Returned(response.v["result"])
         ELSE Raised("APIError", Str("Invalid response from server: " \o "'result'"))
    ELSE Raised("APIError",
                Str("Invalid response from server: " \o not_subscriptable(response, interp)))

\* lines 75-83: the request headers
call_headers(a) ==
    [k \in {"User-Agent"} \cup (IF a.access_token \notin {None, Str("")}
                                THEN {"Authorization"} ELSE {}) |->
        IF k = "Authorization" THEN "Bearer " \o a.access_token.v
        ELSE IF a.preview_mode THEN "IAConnector" \o " PREVIEWMODE" ELSE "IAConnector"]

(***************************************************************************)
(* What requests.post can hand back: no response at all (transport         *)
(* failure), a body that is not JSON, or a body that decodes to a JSON     *)
(* value.                                                                  *)
(***************************************************************************)
Member(keys, f) == Dict([k \in keys |-> f[k]])

ErrorObjects ==
    {Member(keys, [code |-> c, message |-> m]) :
        keys \in SUBSET {"code", "message"},
        c \in ErrorCodes, m \in {Str("full"), None}}

ErrorValues ==
    ErrorObjects \cup {None, Str("boom"), Str("code message"), Num(1), List(<<>>)}

ResultValues == {None, Str("r")}

JsonObjects ==
    {Member(keys, [error |-> e, result |-> r]) :
        keys \in SUBSET {"error", "result"}, e \in ErrorValues, r \in ResultValues}

JsonValues ==
    JsonObjects
    \cup {None, Num(1), Str("ok"), Str("error"), List(<<>>), List(<<Str("error")>>)}

Responses == JsonValues \cup {[cls |-> "text"], [cls |-> "ConnectionError"]}

\* APIConsumer._call
call(response) ==
    /\ api # None
    /\ LET e == call_body(response, interpreter) IN
       last' = Done("_call", [headers |-> call_headers(api), response |-> response],
                    e.outcome, e.value)
    /\ UNCHANGED <<oauth, api, now, objects, interpreter, standalone>>

\* time passes between calls
Tick ==
    /\ now < MaxTime
    /\ now' = now + 1
    /\ last' = Done("tick", None, "return", None)
    /\ UNCHANGED <<oauth, api, objects, interpreter, standalone>>

(***************************************************************************)
(* The program: any sequence of calls on one coordinator and its           *)
(* consumers.                                                              *)
(***************************************************************************)
Next ==
    \/ \E at \in OptAccess, rt \in OptRenew : init_oauth(at, rt)
    \/ init_api
    \/ \E at \in OptAccess, rt \in OptRenew, s \in Sources : propagate_tokens(at, rt, s)
    \/ \E x \in FetchExchanges : fetch_access_token(x)
    \/ \E x \in RenewExchanges : renew_access_token(x)
    \/ get_access_token
    \/ get_renew_token
    \/ get_token_expiry
    \/ get_authorization_url
    \/ \E c \in ErrorCodes : call_get_exception(c)
    \/ \E r \in Responses : call(r)
    \/ \E at \in OptAccess, rt \in OptRenew, u \in BaseUrls : new_oauth_consumer(at, rt, u)
    \/ \E u \in BaseUrls : new_api_consumer(u)
    \/ \E x \in FetchExchanges : standalone_fetch_access_token(x)
    \/ \E x \in RenewExchanges : standalone_renew_access_token(x)
    \/ Tick

Spec == Init /\ [][Next]_vars

\* the token lifecycle: the coordinator, the OAuth consumer and the relay
NextTokens ==
    \/ \E at \in OptAccess, rt \in OptRenew : init_oauth(at, rt)
    \/ init_api
    \/ \E at \in OptAccess, rt \in OptRenew, s \in Sources : propagate_tokens(at, rt, s)
    \/ \E x \in FetchExchanges : fetch_access_token(x)
    \/ \E x \in RenewExchanges : renew_access_token(x)
    \/ get_access_token
    \/ get_renew_token
    \/ get_token_expiry
    \/ get_authorization_url
    \/ Tick

SpecTokens == Init /\ [][NextTokens]_vars

\* the RPC path: the API consumer, tokens pushed to it, and its calls
NextAPI ==
    \/ init_api
    \/ \E at \in OptAccess, rt \in OptRenew, s \in Sources : propagate_tokens(at, rt, s)
    \/ \E c \in ErrorCodes : call_get_exception(c)
    \/ \E r \in Responses : call(r)

SpecAPI == Init /\ [][NextAPI]_vars

\* construction: both consumers' constructors, on every base URL argument
NextConstruct ==
    \/ \E at \in OptAccess, rt \in OptRenew, u \in BaseUrls : new_oauth_consumer(at, rt, u)
    \/ \E u \in BaseUrls : new_api_consumer(u)

SpecConstruct == Init /\ [][NextConstruct]_vars

\* notification: an application that holds its OAuth consumer either in the
\* coordinator or on its own with no connector, constructed without tokens; the
\* coordinator's API consumer is there in both cases
NextRelay ==
    \/ standalone = None /\ init_oauth(None, None)
    \/ init_api
    \/ \E at \in OptAccess, rt \in OptRenew, s \in Sources : propagate_tokens(at, rt, s)
    \/ \E x \in FetchExchanges : fetch_access_token(x)
    \/ \E x \in RenewExchanges : renew_access_token(x)
    \/ oauth = None /\ new_oauth_consumer(None, None, None)
    \/ \E x \in FetchExchanges : standalone_fetch_access_token(x)
    \/ \E x \in RenewExchanges : standalone_renew_access_token(x)

SpecRelay == Init /\ [][NextRelay]_vars

(***************************************************************************)
(* Properties.                                                             *)
(***************************************************************************)
\* the elements of a tuple
Range(q) == {q[i] : i \in DOMAIN q}

\* the exchange response of the last fetch / renew, member by member
resp(key) == last.args.response.v[key]

\* C1: after fetch_access_token succeeds on a coordinator with both consumers
\* initialized, the API consumer's access token and the OAuth consumer's access
\* token equal the response's access_token, and the OAuth consumer's renew
\* token equals the response's refresh_token.
C1_FetchReachesAPI ==
    (last.op = "fetch_access_token" /\ last.outcome = "return" /\ api # None)
    => /\ api.access_token = resp("access_token")
       /\ oauth.access_token = resp("access_token")
       /\ oauth.renew_token = resp("refresh_token")

C1_Witness ==
    /\ last.op = "fetch_access_token" /\ last.outcome = "return"
    /\ api # None /\ api.access_token = Str("AT1")
    /\ oauth.renew_token = Str("RT1")
    /\ resp("expires_in") = Num(1)

\* C2: anti-echo.  With both consumers initialized, propagate_tokens(X, R,
\* source = the OAuth consumer) with X not None sets the API consumer's access
\* token to X and leaves the OAuth consumer's access_token and renew_token as
\* they were before the call.
C2_AntiEcho ==
    [][(/\ last'.op = "propagate_tokens"
        /\ oauth # None /\ api # None
        /\ last'.args.source = Ref(oauth)
        /\ last'.args.access_token # None)
       => /\ api'.access_token = last'.args.access_token
          /\ oauth'.access_token = oauth.access_token
          /\ oauth'.renew_token = oauth.renew_token]_vars

C2_Witness ==
    /\ last.op = "propagate_tokens"
    /\ oauth # None /\ api # None
    /\ last.args.source = Ref(oauth)
    /\ last.args.access_token = Str("AT1") /\ last.args.renew_token = Str("RT1")
    /\ api.access_token = Str("AT1")
    /\ oauth.access_token = Str("") /\ oauth.renew_token = None

\* C3: propagate_tokens never clears a token.  A None access_token argument
\* leaves both consumers' access tokens unchanged, a None renew_token argument
\* leaves the OAuth consumer's renew token unchanged, and a token field that
\* was not None before a call is not None after it.
C3_NeverClears ==
    [][last'.op = "propagate_tokens"
       => /\ last'.args.access_token = None
             => /\ api # None => api'.access_token = api.access_token
                /\ oauth # None => oauth'.access_token = oauth.access_token
          /\ last'.args.renew_token = None
             => (oauth # None => oauth'.renew_token = oauth.renew_token)
          /\ (api # None /\ api.access_token # None) => api'.access_token # None
          /\ (oauth # None /\ oauth.access_token # None) => oauth'.access_token # None
          /\ (oauth # None /\ oauth.renew_token # None) => oauth'.renew_token # None]_vars

C3_Witness ==
    /\ last.op = "propagate_tokens"
    /\ last.args.access_token = None /\ last.args.renew_token = None
    /\ last.args.source = None
    /\ api # None /\ api.access_token = Str("AT1")
    /\ oauth # None /\ oauth.access_token = Str("") /\ oauth.renew_token = Str("RT1")

\* C4: partial update.  propagate_tokens(renew_token = Y, source = None) with
\* the access token omitted and Y not None sets the OAuth consumer's renew
\* token to Y, leaves both access tokens unchanged and changes nothing in the
\* API consumer; and no propagate_tokens call changes any field of the API
\* consumer other than access_token.
C4_PartialUpdate ==
    [][last'.op = "propagate_tokens"
       => /\ (/\ last'.args.access_token = None
              /\ last'.args.renew_token # None
              /\ last'.args.source = None)
             => /\ api' = api
                /\ oauth # None
                   => /\ oauth'.renew_token = last'.args.renew_token
                      /\ oauth'.access_token = oauth.access_token
          /\ api # None
             => /\ DOMAIN api' = DOMAIN api
                /\ \A f \in DOMAIN api \ {"access_token"} : api'[f] = api[f]]_vars

C4_Witness ==
    /\ last.op = "propagate_tokens"
    /\ last.args.access_token = None /\ last.args.renew_token = Str("RT1")
    /\ last.args.source = None
    /\ oauth # None /\ oauth.renew_token = Str("RT1") /\ oauth.access_token = Str("")
    /\ api # None /\ api.access_token = Str("AT1")

\* C5: token pair atomicity.  Every fetch_access_token and renew_access_token
\* call either succeeds with both tokens of the OAuth consumer replaced by the
\* response's values, or fails with both tokens as they were before the call.
C5_TokenPairAtomic ==
    [][last'.op \in {"fetch_access_token", "renew_access_token"}
       => \/ /\ last'.outcome = "return"
             /\ oauth'.access_token = last'.args.response.v["access_token"]
             /\ oauth'.renew_token = last'.args.response.v["refresh_token"]
          \/ /\ last'.outcome # "return"
             /\ oauth'.access_token = oauth.access_token
             /\ oauth'.renew_token = oauth.renew_token]_vars

\* C6: init at most once.  init_oauth on a coordinator whose OAuth consumer is
\* bound, and init_api on one whose API consumer is bound, fail with an
\* error and leave both consumers (instances and tokens) unchanged.
C6_InitOnce ==
    [][/\ (last'.op = "init_oauth" /\ oauth # None)
          => (last'.outcome = "AssertionError" /\ oauth' = oauth /\ api' = api)
       /\ (last'.op = "init_api" /\ api # None)
          => (last'.outcome = "AssertionError" /\ oauth' = oauth /\ api' = api)]_vars

C6_Witness ==
    /\ last.op = "init_oauth" /\ last.outcome = "AssertionError"
    /\ last.args.access_token = Str("AT1") /\ last.args.renew_token = Str("RT1")
    /\ oauth.access_token = None /\ oauth.renew_token = None /\ oauth.id = 1
    /\ api # None

\* C7: get_access_token (get_renew_token) fails with the "no token present"
\* error exactly when the stored access (renew) token is None, and otherwise
\* returns the stored value.
C7_GetToken ==
    /\ last.op = "get_access_token"
       => IF oauth.access_token = None
          THEN last.outcome = "ValueError" /\ last.value = NoAccessToken
          ELSE last.outcome = "return" /\ last.value = oauth.access_token
    /\ last.op = "get_renew_token"
       => IF oauth.renew_token = None
          THEN last.outcome = "ValueError" /\ last.value = NoRenewToken
          ELSE last.outcome = "return" /\ last.value = oauth.renew_token

\* get_access_token returns the token a fetch stored (token_expiry is set by
\* a fetch only)
C7_Witness ==
    /\ last.op = "get_access_token" /\ last.outcome = "return"
    /\ last.value = Str("AT1")
    /\ oauth.token_expiry # None

\* C8: _get_exception(code) is NotLoggedInError for 403, UnknownDeviceError
\* for 406, SignupError for 412, OtherError for 500 and APIError for every
\* other code, None and negative codes included.
C8_ErrorCodeResolution ==
    last.op = "_get_exception"
    => last.value = Class(CASE last.args = Num(403) -> "NotLoggedInError"
                            [] last.args = Num(406) -> "UnknownDeviceError"
                            [] last.args = Num(412) -> "SignupError"
                            [] last.args = Num(500) -> "OtherError"
                            [] OTHER -> "APIError")

C8_Witness ==
    /\ last.op = "_get_exception"
    /\ last.args = Num(-32700)
    /\ last.value = Class("APIError")

\* the `error` member of the last response is present and not None
has_error ==
    /\ last.args.response.cls = "dict"
    /\ "error" \in DOMAIN last.args.response.v
    /\ last.args.response.v["error"] # None

\* C9: for every response whose error member is not None, _call raises and
\* returns no result; when the member is an error object with both code and
\* message it raises the error kind registered for the code (APIError if
\* none is) with that message, and when it is an error object lacking one of
\* them it raises the generic APIError with whatever message is present.
C9_ErrorMapping ==
    (last.op = "_call" /\ has_error)
    => LET error == last.args.response.v["error"] IN
       /\ last.outcome # "return"
       /\ error.cls = "dict"
          => IF {"code", "message"} \subseteq DOMAIN error.v
             THEN /\ last.outcome =
                       (CASE error.v["code"] = Num(403) -> "NotLoggedInError"
                          [] error.v["code"] = Num(406) -> "UnknownDeviceError"
                          [] error.v["code"] = Num(412) -> "SignupError"
                          [] error.v["code"] = Num(500) -> "OtherError"
                          [] OTHER -> "APIError")
                  /\ error.v["message"].cls = "str" => last.value = error.v["message"]
             ELSE /\ last.outcome = "APIError"
                  /\ ("message" \in DOMAIN error.v /\ error.v["message"].cls = "str")
                     => last.value = error.v["message"]

\* the bodies that are no success: not JSON, not an object, or no `result`
malformed ==
    \/ last.args.response.cls = "text"
    \/ /\ ~has_error
       /\ \/ last.args.response.cls # "dict"
          \/ "result" \notin DOMAIN last.args.response.v

\* the message of the "invalid response" error
InvalidResponse(value) ==
    /\ value.cls = "str"
    /\ \E detail \in {"'result'"}
                     \cup {not_subscriptable(x, i) :
                             x \in {Str(""), List(<<>>)}, i \in Interpreters} :
          value.v = "Invalid response from server: " \o detail

\* C10: a malformed or non-JSON response is never a success.  _call returns
\* a value only when the body is an object containing `result`; for every
\* body that is not JSON, or that carries no error and is not an object or
\* lacks `result`, it raises the "invalid response" APIError.
C10_MalformedResponse ==
    (last.op = "_call" /\ last.args.response.cls # "ConnectionError")
    => /\ last.outcome = "return"
          => /\ last.args.response.cls = "dict"
             /\ "result" \in DOMAIN last.args.response.v
       /\ malformed => (last.outcome = "APIError" /\ InvalidResponse(last.value))

\* C11: every RPC call issued while the API consumer's access token is not None
\* carries the header Authorization: Bearer <token> built from that token, and
\* every call issued while it is None carries no Authorization header; a token
\* that is not None is never treated as absent.
C11_BearerHeader ==
    last.op = "_call"
    => IF api.access_token # None
       THEN /\ "Authorization" \in DOMAIN last.args.headers
            /\ last.args.headers["Authorization"] = "Bearer " \o api.access_token.v
       ELSE "Authorization" \notin DOMAIN last.args.headers


\* C12: within one OAuth consumer the session is None after construction; every
\* get_authorization_url, fetch_access_token or renew_access_token call that
\* reaches _get_session leaves it set; a session that is set is the same
\* instance after every later step; and at most one session is ever constructed.
C12_SessionMemoized ==
    [][/\ (last'.op = "init_oauth" /\ last'.outcome = "return") => oauth'.session = None
       /\ (oauth # None /\ oauth.session # None) => oauth'.session = oauth.session
       /\ (\/ last'.op \in {"get_authorization_url", "fetch_access_token"}
           \/ last'.op = "renew_access_token" /\ "refresh_token" \in Range(last'.effects))
          => oauth'.session # None
       /\ objects'["OAuth2Session"] <= 1]_vars

\* a renew that reuses the session a fetch constructed
C12_Witness ==
    /\ last.op = "renew_access_token"
    /\ last.outcome = "return"
    /\ oauth.token_expiry # None
    /\ oauth.session = [cls |-> "OAuth2Session", id |-> 1]
    /\ objects["OAuth2Session"] = 1


\* whether a string ends with the character "/"
ends_with_slash(chars) == Len(chars) > 0 /\ chars[Len(chars)] = "/"

\* C13: each consumer's constructor stores a supplied base URL that does not
\* end with "/" with exactly one "/" appended, stores one that ends with "/"
\* unchanged, so that normalizing the stored URL again changes nothing, and
\* leaves the class default in place when no base URL is supplied.
C13_BaseUrlNormalized ==
    last.op \in {"OAuthConsumer", "APIConsumer"}
    => LET supplied == last.args.base_url
           stored == last.value.base_url
           default == IF last.op = "OAuthConsumer" THEN OAuthBaseUrl ELSE APIBaseUrl
       IN /\ supplied = None => stored = default
          /\ (supplied # None /\ ends_with_slash(supplied.chars)) => stored = supplied
          /\ (supplied # None /\ ~ends_with_slash(supplied.chars))
             => stored = Text(Append(supplied.chars, "/"))
          /\ base_url_of(stored, default) = stored

\* a URL without the trailing slash given to OAuthConsumer
C13_Witness ==
    /\ last.op = "OAuthConsumer"
    /\ last.args.base_url = Text(<<"/", "a">>)
    /\ standalone.base_url = Text(<<"/", "a", "/">>)


\* C14: token_expiry is None when init_oauth returns, whatever tokens were
\* supplied; it changes only in a fetch_access_token that succeeds, which sets
\* it to the time of the fetch plus the response's expires_in seconds (so no
\* propagate_tokens, renew or failed fetch populates it); and get_token_expiry
\* returns the stored value.
C14_TokenExpiry ==
    [][/\ (last'.op = "init_oauth" /\ last'.outcome = "return")
          => oauth'.token_expiry = None
       /\ (last'.op = "fetch_access_token" /\ last'.outcome = "return")
          => oauth'.token_expiry
                = Datetime(now + last'.args.response.v["expires_in"].v)
       /\ (oauth # None /\ ~(last'.op = "fetch_access_token" /\ last'.outcome = "return"))
          => oauth'.token_expiry = oauth.token_expiry
       /\ last'.op = "get_token_expiry" => last'.value = oauth'.token_expiry]_vars

\* the expiry read back after a fetch made at time 1
C14_Witness ==
    /\ last.op = "get_token_expiry"
    /\ last.value = Datetime(1 + MaxExpiresIn)
    /\ now = 1


\* C15 as stated: for every propagate_tokens call with an access token that is
\* not None and every source, the token is written to the API consumer if it is
\* initialized and is not the source, and to the OAuth consumer if it is
\* initialized and is not the source; an uninitialized target is skipped
\* without error.
C15_RoutingByIdentity ==
    [][(last'.op = "propagate_tokens" /\ last'.args.access_token # None)
       => /\ last'.outcome = "return"
          /\ IF api = None THEN api' = None
             ELSE IF last'.args.source # Ref(api)
                  THEN api'.access_token = last'.args.access_token
                  ELSE api'.access_token = api.access_token
          /\ IF oauth = None THEN oauth' = None
             ELSE IF last'.args.source # Ref(oauth)
                  THEN oauth'.access_token = last'.args.access_token
                  ELSE oauth'.access_token = oauth.access_token]_vars

\* C15, amended: for every propagate_tokens call with an access token that is
\* not None and every source, the token is written to the API consumer if it is
\* initialized and the source is not an APIConsumer instance (bound to this
\* coordinator or not), and to the OAuth consumer if it is initialized and the
\* source is not an OAuthConsumer instance; a target whose class is the
\* source's keeps its token, and an uninitialized target is skipped without
\* error.
C15_RoutingByClass ==
    [][(last'.op = "propagate_tokens" /\ last'.args.access_token # None)
       => /\ last'.outcome = "return"
          /\ IF api = None THEN api' = None
             ELSE IF last'.args.source.cls # "APIConsumer"
                  THEN api'.access_token = last'.args.access_token
                  ELSE api'.access_token = api.access_token
          /\ IF oauth = None THEN oauth' = None
             ELSE IF last'.args.source.cls # "OAuthConsumer"
                  THEN oauth'.access_token = last'.args.access_token
                  ELSE oauth'.access_token = oauth.access_token]_vars

\* a token pushed with an API consumer of another coordinator as the source:
\* the OAuth consumer has it, the API consumer does not
C15_Witness ==
    /\ last.op = "propagate_tokens"
    /\ last.args.source = Foreign("APIConsumer")
    /\ last.args.access_token \in AccessTokens
    /\ oauth # None /\ oauth.access_token = last.args.access_token
    /\ api # None /\ api.access_token = None


C17_OneWayBinding ==
    [][/\ oauth' = None \/ oauth'.cls = "OAuthConsumer"
       /\ api' = None \/ api'.cls = "APIConsumer"
       /\ oauth # None => (oauth' # None /\ oauth'.id = oauth.id)
       /\ api # None => (api' # None /\ api'.id = api.id)
       /\ (oauth = None /\ oauth' # None)
          => (last'.op = "init_oauth" /\ last'.outcome = "return")
       /\ (api = None /\ api' # None)
          => (last'.op = "init_api" /\ last'.outcome = "return")]_vars

\* both slots still hold their first instances after a fetch and a refused init
C17_Witness ==
    /\ last.op = "init_api" /\ last.outcome = "AssertionError"
    /\ oauth # None /\ oauth.id = 1 /\ oauth.token_expiry # None
    /\ api # None /\ api.id = 1 /\ api.access_token # None

\* C18: renew_access_token called while the stored renew token is None fails
\* without calling the session's refresh_token (no request is sent to the
\* refresh endpoint), leaves both tokens of the OAuth consumer as they were,
\* and does not notify the coordinator.
C18_RenewPrecondition ==
    [][(last'.op = "renew_access_token" /\ oauth.renew_token = None)
       => /\ last'.outcome # "return"
          /\ "refresh_token" \notin Range(last'.effects)
          /\ oauth'.access_token = oauth.access_token
          /\ oauth'.renew_token = oauth.renew_token
          /\ "propagate_tokens" \notin Range(last'.effects)
          /\ api' = api]_vars

\* C19: each fetch_access_token or renew_access_token that succeeds on the
\* coordinator's OAuth consumer calls propagate_tokens exactly once; a
\* propagate_tokens call makes no call on either consumer and changes nothing
\* but the API consumer's access_token and the OAuth consumer's access_token
\* and renew_token; and an OAuth consumer with no connector never calls
\* propagate_tokens and leaves the coordinator's consumers as they were.
C19_NoEcho ==
    [][/\ (/\ last'.op \in {"fetch_access_token", "renew_access_token"}
           /\ last'.outcome = "return")
          => Cardinality({i \in DOMAIN last'.effects :
                            last'.effects[i] = "propagate_tokens"}) = 1
       /\ last'.op = "propagate_tokens"
          => /\ last'.effects = <<>>
             /\ api # None => [api' EXCEPT !.access_token = api.access_token] = api
             /\ oauth # None
                => [oauth' EXCEPT !.access_token = oauth.access_token,
                                  !.renew_token = oauth.renew_token] = oauth
             /\ UNCHANGED <<standalone, objects>>
       /\ last'.op \in {"standalone.fetch_access_token", "standalone.renew_access_token"}
          => /\ "propagate_tokens" \notin Range(last'.effects)
             /\ UNCHANGED <<oauth, api>>]_vars

\* a fetch that succeeded on the consumer without connector, next to an API
\* consumer that did not get the token
C19_Witness ==
    /\ last.op = "standalone.fetch_access_token" /\ last.outcome = "return"
    /\ standalone.access_token \in AccessTokens
    /\ api # None /\ api.access_token = None

\* C20: on a coordinator with both consumers initialized, whenever a
\* fetch_access_token or renew_access_token call ends, by returning or by
\* raising, the API consumer's access token equals the OAuth consumer's,
\* provided the two were equal before the call.
C20_InStep ==
    [][(/\ last'.op \in {"fetch_access_token", "renew_access_token"}
        /\ oauth # None /\ api # None
        /\ api.access_token = oauth.access_token)
       => api'.access_token = oauth'.access_token]_vars


====
